---- MODULE Spec2Model ----
(***************************************************************************)
(* Forward-mode automatic differentiation with dual numbers (ezdiff).      *)
(*                                                                         *)
(* A Dual<F, N> holds N value slots `x` and N derivative slots `dx`.  The  *)
(* model evaluates expressions over one seeded variable: `seed` is the     *)
(* variable made by dual!(c), `y` the expression built so far, and every   *)
(* action applies one operation of src/src/lib.rs to them.                 *)
(*                                                                         *)
(* The element type F is a small binary fixed-point format with the IEEE   *)
(* special values: finite numbers are integers counting 1/Scale, a result  *)
(* beyond MaxRaw overflows to an infinity, and NaN propagates.  Signed     *)
(* zero is not distinguished; equality is equality of representation.      *)
(* The array expressions of the source (`self.x + rhs.x`, `self.x.ln()`,   *)
(* `self.x + rhs`) are read slot by slot.                                  *)
(***************************************************************************)
EXTENDS Integers, Sequences, FiniteSets, TLC

VARIABLES
  F,      \* the element type, "f32" or "f64"
  N,      \* the width
  seed,   \* the variable: dual!(c)
  y,      \* the expression evaluated so far
  op,     \* the operation that produced y
  lhs,    \* its dual operand (the left one of two)
  rhs,    \* its right dual operand (lhs again when there is only one)
  k,      \* its plain constant (the seeding literal for "new", 0 when none)
  pop,    \* the operation before it
  pk,     \* and that operation's constant
  steps,  \* operations applied since seeding
  sseed,  \* the scalar dual number seeded from the same literal
  sy      \* the same expression evaluated on scalar dual numbers

vars == <<F, N, seed, y, op, lhs, rhs, k, pop, pk, steps, sseed, sy>>

(***************************************************************************)
(* Bounds of the model.                                                    *)
(***************************************************************************)
\* widths N of the array representation that are explored: 1..MaxN
MaxN == 2
\* operations applied after seeding
MaxSteps == 2
\* fraction and integer bits of the two element types, and the guard bits
\* the elementary functions carry internally
FracBits32 == 3
IntBits32 == 5
FracBits64 == 5
IntBits64 == 7
GuardBits == 2

(***************************************************************************)
(* The element type F: f32 or f64.                                         *)
(***************************************************************************)
RECURSIVE Pow2(_)
Pow2(n) == IF n = 0 THEN 1 ELSE 2 * Pow2(n - 1)

Scale32 == Pow2(FracBits32)
Scale64 == Pow2(FracBits64)
MaxRaw32 == Pow2(IntBits32 + FracBits32)
MaxRaw64 == Pow2(IntBits64 + FracBits64)
Guard == Pow2(GuardBits)

FloatTypes == {"f32", "f64"}

Scale == IF F = "f32" THEN Scale32 ELSE Scale64
MaxRaw == IF F = "f32" THEN MaxRaw32 ELSE MaxRaw64
IntBits == IF F = "f32" THEN IntBits32 ELSE IntBits64

PInf == MaxRaw + 1
NInf == -(MaxRaw + 1)
NaN == MaxRaw + 2

IsFin(v) == v >= -MaxRaw /\ v <= MaxRaw
IsInf(v) == v = PInf \/ v = NInf

Abs(n) == IF n < 0 THEN -n ELSE n
Sgn(n) == IF n < 0 THEN -1 ELSE IF n > 0 THEN 1 ELSE 0

\* n / d for n >= 0, d > 0, rounded to nearest, ties to even
RoundDiv(n, d) ==
  LET q == n \div d
      r == n % d
  IN IF 2 * r > d \/ (2 * r = d /\ q % 2 = 1) THEN q + 1 ELSE q

SRoundDiv(n, d) == Sgn(n) * RoundDiv(Abs(n), d)

\* n / d for d > 0, truncated toward zero
TDiv(n, d) == Sgn(n) * (Abs(n) \div d)

\* a finite result, or the infinity it overflows to
Fin(v) == IF v > MaxRaw THEN PInf ELSE IF v < -MaxRaw THEN NInf ELSE v

\* the literal h/2 (literals are written in halves: 1.0 is Lit(2), 0.5 is Lit(1))
Lit(h) == (h * Scale) \div 2

\* F::one()
One == Scale

f_neg(a) == IF a = NaN THEN NaN ELSE -a

f_add(a, b) ==
  IF a = NaN \/ b = NaN THEN NaN
  ELSE IF IsInf(a) THEN (IF IsInf(b) /\ a # b THEN NaN ELSE a)
  ELSE IF IsInf(b) THEN b
  ELSE Fin(a + b)

f_sub(a, b) == f_add(a, f_neg(b))

f_mul(a, b) ==
  IF a = NaN \/ b = NaN THEN NaN
  ELSE IF IsInf(a) \/ IsInf(b)
    THEN (IF a = 0 \/ b = 0 THEN NaN
          ELSE IF Sgn(a) * Sgn(b) > 0 THEN PInf ELSE NInf)
  ELSE Fin(Sgn(a) * Sgn(b) * RoundDiv(Abs(a) * Abs(b), Scale))

f_div(a, b) ==
  IF a = NaN \/ b = NaN THEN NaN
  ELSE IF IsInf(a)
    THEN (IF IsInf(b) THEN NaN
          ELSE IF Sgn(a) * Sgn(b) < 0 THEN NInf ELSE PInf)
  ELSE IF IsInf(b) THEN 0
  ELSE IF b = 0
    THEN (IF a = 0 THEN NaN ELSE IF a > 0 THEN PInf ELSE NInf)
  ELSE Fin(Sgn(a) * Sgn(b) * RoundDiv(Abs(a) * Scale, Abs(b)))

(***************************************************************************)
(* Elementary functions of F.  They work on "wide" numbers, integers       *)
(* counting 1/Wide, and round once at the end.                             *)
(***************************************************************************)
Wide == Scale * Guard

ToRaw(w) == Fin(SRoundDiv(w, Guard))

PiW == (Wide * 314159) \div 100000
HalfPiW == (Wide * 157080) \div 100000
Ln2W == (Wide * 693147) \div 1000000
\* a wide number that rounds to +infinity
HugeW == (MaxRaw + 1) * Guard

\* sum of w^j / j! from term j = i on, for w >= 0
RECURSIVE ExpSeries(_, _, _, _)
ExpSeries(w, term, i, sum) ==
  IF term = 0 THEN sum
  ELSE ExpSeries(w, (term * w) \div (i * Wide), i + 1, sum + term)

\* e^(w/Wide), wide: beyond e^IntBits it overflows, below e^-IntBits it is
\* less than half a unit of Wide
ExpW(w) ==
  IF w > IntBits * Wide THEN HugeW
  ELSE IF w < -IntBits * Wide THEN 0
  ELSE IF w >= 0 THEN ExpSeries(w, Wide, 1, 0)
  ELSE RoundDiv(Wide * Wide, ExpSeries(-w, Wide, 1, 0))

\* sum of z^j / j over odd j from i on, z wide, p = z^i
RECURSIVE AtanhSeries(_, _, _, _)
AtanhSeries(z, p, i, sum) ==
  IF p = 0 THEN sum
  ELSE AtanhSeries(z, TDiv(TDiv(p * z, Wide) * z, Wide), i + 2, sum + TDiv(p, i))

\* ln(w/Wide) for w > 0, wide: w = m * 2^e with m in [1, 2), ln w = ln m + e ln 2
RECURSIVE LnW(_, _, _)
LnW(w, d, e) ==
  IF w >= 2 * d THEN LnW(w, 2 * d, e + 1)
  ELSE IF w < d THEN LnW(2 * w, d, e - 1)
  ELSE LET z == SRoundDiv((w - d) * Wide, w + d)
       IN 2 * AtanhSeries(z, z, 1, 0) + e * Ln2W

\* alternating sum of r^j / j! over every second j from i on, term = +-r^i / i!
RECURSIVE TrigSeries(_, _, _, _)
TrigSeries(r, term, i, sum) ==
  IF term = 0 THEN sum
  ELSE TrigSeries(r, -TDiv(TDiv(TDiv(term * r, Wide) * r, Wide), (i + 1) * (i + 2)),
                  i + 2, sum + term)

\* w reduced to [-pi, pi]
Reduce(w) ==
  LET r == w % (2 * PiW)
  IN IF r > PiW THEN r - 2 * PiW ELSE r

SinW(w) == LET r == Reduce(w) IN TrigSeries(r, r, 1, 0)
CosW(w) == LET r == Reduce(w) IN TrigSeries(r, Wide, 0, 0)

\* alternating sum of z^j / j over odd j from i on, p = +-z^i
RECURSIVE AtanSeries(_, _, _, _)
AtanSeries(z, p, i, sum) ==
  IF p = 0 THEN sum
  ELSE AtanSeries(z, -TDiv(TDiv(p * z, Wide) * z, Wide), i + 2, sum + TDiv(p, i))

\* atan(w/Wide) for w >= 0, wide
AtanPosW(w) ==
  IF w > Wide
    THEN LET z == RoundDiv(Wide * Wide, w)
             u == SRoundDiv((z - Wide) * Wide, z + Wide)
         IN HalfPiW - (IF 2 * z > Wide
                        THEN (HalfPiW \div 2) + AtanSeries(u, u, 1, 0)
                        ELSE AtanSeries(z, z, 1, 0))
  ELSE IF 2 * w > Wide
    THEN LET u == SRoundDiv((w - Wide) * Wide, w + Wide)
         IN (HalfPiW \div 2) + AtanSeries(u, u, 1, 0)
  ELSE AtanSeries(w, w, 1, 0)

RECURSIVE Isqrt(_, _)
Isqrt(n, g) ==
  LET h == (g + n \div g) \div 2
  IN IF h >= g THEN g ELSE Isqrt(n, h)

\* square root of n >= 0, rounded to nearest
SqrtInt(n) ==
  IF n = 0 THEN 0
  ELSE LET r == Isqrt(n, n) IN IF n - r * r > r THEN r + 1 ELSE r

f_exp(a) ==
  IF a = NaN THEN NaN
  ELSE IF a = PInf THEN PInf
  ELSE IF a = NInf THEN 0
  ELSE ToRaw(ExpW(a * Guard))

f_ln(a) ==
  IF a = NaN \/ a < 0 THEN NaN
  ELSE IF a = 0 THEN NInf
  ELSE IF a = PInf THEN PInf
  ELSE ToRaw(LnW(a * Guard, Wide, 0))

\* F::log: self.ln() / base.ln()
f_log(a, base) == f_div(f_ln(a), f_ln(base))

f_sqrt(a) ==
  IF a = NaN \/ a < 0 THEN NaN
  ELSE IF a = PInf THEN PInf
  ELSE SqrtInt(a * Scale)

f_sin(a) == IF ~IsFin(a) THEN NaN ELSE ToRaw(SinW(a * Guard))

f_cos(a) == IF ~IsFin(a) THEN NaN ELSE ToRaw(CosW(a * Guard))

f_tan(a) ==
  IF ~IsFin(a) THEN NaN
  ELSE LET s == SinW(a * Guard)
           c == CosW(a * Guard)
       IN IF c = 0 THEN (IF s < 0 THEN NInf ELSE PInf)
          ELSE Fin(Sgn(s) * Sgn(c) * RoundDiv(Abs(s) * Scale, Abs(c)))

f_atan(a) ==
  IF a = NaN THEN NaN
  ELSE IF a = PInf THEN ToRaw(HalfPiW)
  ELSE IF a = NInf THEN ToRaw(-HalfPiW)
  ELSE ToRaw(Sgn(a) * AtanPosW(Abs(a) * Guard))

\* asin(x) = atan(x / sqrt(1 - x^2)) inside the domain [-1, 1]
AsinW(a) ==
  IF a = One THEN HalfPiW
  ELSE IF a = -One THEN -HalfPiW
  ELSE LET cw == SqrtInt((One * One - a * a) * Guard * Guard)
       IN Sgn(a) * AtanPosW(RoundDiv(Abs(a) * Guard * Wide, cw))

f_asin(a) == IF a = NaN \/ a > One \/ a < -One THEN NaN ELSE ToRaw(AsinW(a))

f_acos(a) ==
  IF a = NaN \/ a > One \/ a < -One THEN NaN ELSE ToRaw(HalfPiW - AsinW(a))

RECURSIVE PowiPos(_, _)
PowiPos(a, n) == IF n = 0 THEN One ELSE f_mul(a, PowiPos(a, n - 1))

\* F::powi: repeated multiplication, and the reciprocal for a negative exponent
f_powi(a, n) == IF n >= 0 THEN PowiPos(a, n) ELSE f_div(One, PowiPos(a, -n))

IsInteger(b) == IsFin(b) /\ b % Scale = 0
IsOddInteger(b) == IsInteger(b) /\ (b \div Scale) % 2 = 1

\* a^b for finite a > 0 and finite b # 0: exact products for an integer b, as
\* a correctly rounded pow gives them, and e^(b ln a) otherwise
PowPos(a, b) ==
  IF IsInteger(b) THEN f_powi(a, b \div Scale)
  ELSE ToRaw(ExpW(TDiv(b * LnW(a * Guard, Wide, 0), Scale)))

\* F::powf, with the special cases of IEEE 754 pow
f_powf(a, b) ==
  IF b = 0 \/ a = One THEN One
  ELSE IF a = NaN \/ b = NaN THEN NaN
  ELSE IF IsInf(b)
    THEN (IF Abs(a) = One THEN One
          ELSE IF (Abs(a) < One) = (b = PInf) THEN 0 ELSE PInf)
  ELSE IF a = PInf THEN (IF b < 0 THEN 0 ELSE PInf)
  ELSE IF a = NInf
    THEN (IF b < 0 THEN 0 ELSE IF IsOddInteger(b) THEN NInf ELSE PInf)
  ELSE IF a = 0 THEN (IF b < 0 THEN PInf ELSE 0)
  ELSE IF a < 0
    THEN (IF ~IsInteger(b) THEN NaN
          ELSE IF IsOddInteger(b) THEN f_neg(PowPos(-a, b)) ELSE PowPos(-a, b))
  ELSE PowPos(a, b)

(***************************************************************************)
(* Dual<F, N>: the arrays x and dx, sequences of length N.  An operation   *)
(* on arrays is the operation of F in every slot.                          *)
(***************************************************************************)
Dual(xs, dxs) == [x |-> xs, dx |-> dxs]

\* [v; N]
Splat(v) == [i \in 1..N |-> v]

\* a constructor that seeds the derivative with zero
new_zero_seed(val) == Dual(Splat(val), Splat(0))

new(val) == Dual(Splat(val), Splat(One))

\* dual!(a)
dual(a) == new(a)

\* the loop of exp: slot i of x is overwritten, then read again for dx
RECURSIVE exp_loop(_, _)
exp_loop(self, i) ==
  IF i > Len(self.x) THEN self
  ELSE LET s1 == [self EXCEPT !.x[i] = f_exp(self.x[i])]
           s2 == [s1 EXCEPT !.dx[i] = f_mul(f_exp(s1.x[i]), s1.dx[i])]
       IN exp_loop(s2, i + 1)

exp(self) == exp_loop(self, 1)

ln(self) ==
  Dual([i \in DOMAIN self.x |-> f_ln(self.x[i])],
       [i \in DOMAIN self.x |-> f_mul(f_powi(self.x[i], -1), self.dx[i])])

log(self, base) ==
  Dual([i \in DOMAIN self.x |-> f_log(self.x[i], base)],
       [i \in DOMAIN self.x |->
          f_mul(f_powi(f_mul(f_ln(base), self.x[i]), -1), self.dx[i])])

sin(self) ==
  Dual([i \in DOMAIN self.x |-> f_sin(self.x[i])],
       [i \in DOMAIN self.x |-> f_mul(f_cos(self.x[i]), self.dx[i])])

\* a cosine whose derivative drops the factor self.dx
cos_no_chain(self) ==
  Dual([i \in DOMAIN self.x |-> f_cos(self.x[i])],
       [i \in DOMAIN self.x |-> f_neg(f_sin(self.x[i]))])

cos(self) ==
  Dual([i \in DOMAIN self.x |-> f_cos(self.x[i])],
       [i \in DOMAIN self.x |-> f_mul(f_neg(f_sin(self.x[i])), self.dx[i])])

tan(self) ==
  Dual([i \in DOMAIN self.x |-> f_tan(self.x[i])],
       [i \in DOMAIN self.x |-> f_mul(f_powi(f_cos(self.x[i]), -2), self.dx[i])])

asin(self) ==
  Dual([i \in DOMAIN self.x |-> f_asin(self.x[i])],
       [i \in DOMAIN self.x |->
          f_mul(f_powi(f_sqrt(f_sub(One, f_powi(self.x[i], 2))), -1), self.dx[i])])

acos(self) ==
  Dual([i \in DOMAIN self.x |-> f_acos(self.x[i])],
       [i \in DOMAIN self.x |->
          f_mul(f_neg(f_powi(f_sqrt(f_sub(One, f_powi(self.x[i], 2))), -1)),
                self.dx[i])])

atan(self) ==
  Dual([i \in DOMAIN self.x |-> f_atan(self.x[i])],
       [i \in DOMAIN self.x |->
          f_mul(f_powi(f_add(One, f_powi(self.x[i], 2)), -1), self.dx[i])])

value(self) == self.x

derivative(self) == self.dx

neg(self) ==
  Dual([i \in DOMAIN self.x |-> f_neg(self.x[i])],
       [i \in DOMAIN self.dx |-> f_neg(self.dx[i])])

\* Sum rule
add(self, other) ==
  Dual([i \in DOMAIN self.x |-> f_add(self.x[i], other.x[i])],
       [i \in DOMAIN self.dx |-> f_add(self.dx[i], other.dx[i])])

\* a constant sum that adds the constant to the derivative too
add_F_shifts_derivative(self, c) ==
  Dual([i \in DOMAIN self.x |-> f_add(self.x[i], c)],
       [i \in DOMAIN self.dx |-> f_add(self.dx[i], c)])

\* Sum constant: Dual + F, f32 + Dual, f64 + Dual, (F,) + Dual
add_F(self, c) == Dual([i \in DOMAIN self.x |-> f_add(self.x[i], c)], self.dx)

f32_add(c, other) == Dual([i \in DOMAIN other.x |-> f_add(other.x[i], c)], other.dx)

f64_add(c, other) == Dual([i \in DOMAIN other.x |-> f_add(other.x[i], c)], other.dx)

tuple_add(c, other) == Dual([i \in DOMAIN other.x |-> f_add(other.x[i], c)], other.dx)

\* Difference rule
sub(self, other) ==
  Dual([i \in DOMAIN self.x |-> f_sub(self.x[i], other.x[i])],
       [i \in DOMAIN self.dx |-> f_sub(self.dx[i], other.dx[i])])

\* a product whose derivative is reseeded to 1
mul_reseeded(self, other) ==
  Dual([i \in DOMAIN self.x |-> f_mul(self.x[i], other.x[i])], Splat(One))

\* Product rule
mul(self, other) ==
  Dual([i \in DOMAIN self.x |-> f_mul(self.x[i], other.x[i])],
       [i \in DOMAIN self.x |->
          f_add(f_mul(self.x[i], other.dx[i]), f_mul(other.x[i], self.dx[i]))])

\* Constant multiple rule: Dual * F, f32 * Dual, f64 * Dual
mul_F(self, c) ==
  Dual([i \in DOMAIN self.x |-> f_mul(self.x[i], c)],
       [i \in DOMAIN self.dx |-> f_mul(self.dx[i], c)])

\* a constant multiple that leaves the derivative unscaled
f32_mul_unscaled(c, other) ==
  Dual([i \in DOMAIN other.x |-> f_mul(c, other.x[i])], other.dx)

f32_mul(c, other) ==
  Dual([i \in DOMAIN other.x |-> f_mul(c, other.x[i])],
       [i \in DOMAIN other.dx |-> f_mul(c, other.dx[i])])

f64_mul(c, other) ==
  Dual([i \in DOMAIN other.x |-> f_mul(c, other.x[i])],
       [i \in DOMAIN other.dx |-> f_mul(c, other.dx[i])])

\* a quotient whose derivative is divided by other.x, not by its square
div_unsquared(self, other) ==
  Dual([i \in DOMAIN self.x |-> f_div(self.x[i], other.x[i])],
       [i \in DOMAIN self.x |->
          f_div(f_add(f_mul(self.x[i], other.dx[i]), f_mul(other.x[i], self.dx[i])),
                other.x[i])])

\* Quotient rule
div(self, other) ==
  Dual([i \in DOMAIN self.x |-> f_div(self.x[i], other.x[i])],
       [i \in DOMAIN self.x |->
          f_div(f_add(f_mul(self.x[i], other.dx[i]), f_mul(other.x[i], self.dx[i])),
                f_mul(other.x[i], other.x[i]))])

\* a power whose derivative keeps the exponent n instead of n - 1
pow_same_exponent(self, r) ==
  Dual([i \in DOMAIN self.x |-> f_powf(self.x[i], r)],
       [i \in DOMAIN self.x |-> f_mul(f_mul(r, f_powf(self.x[i], r)), self.dx[i])])

\* Power rule: n * x^(n-1) * d/dx
pow(self, r) ==
  Dual([i \in DOMAIN self.x |-> f_powf(self.x[i], r)],
       [i \in DOMAIN self.x |->
          f_mul(f_mul(r, f_powf(self.x[i], f_sub(r, One))), self.dx[i])])

\* a^x: (F,).pow(Dual), f32.pow(Dual), f64.pow(Dual)
tuple_pow(c, other) ==
  Dual([i \in DOMAIN other.x |-> f_powf(c, other.x[i])],
       [i \in DOMAIN other.x |->
          f_mul(f_mul(f_ln(c), f_powf(c, other.x[i])), other.dx[i])])

f32_pow(c, other) ==
  Dual([i \in DOMAIN other.x |-> f_powf(c, other.x[i])],
       [i \in DOMAIN other.x |->
          f_mul(f_mul(f_ln(c), f_powf(c, other.x[i])), other.dx[i])])

f64_pow(c, other) ==
  Dual([i \in DOMAIN other.x |-> f_powf(c, other.x[i])],
       [i \in DOMAIN other.x |->
          f_mul(f_mul(f_ln(c), f_powf(c, other.x[i])), other.dx[i])])

\* self.pow(F::from(0.5).unwrap())
sqrt(self) == pow(self, Lit(1))

(***************************************************************************)
(* The scalar dual number of the specification (sections 3 and 4): one     *)
(* value and one derivative.  The specification gives each rule as a       *)
(* formula over the reals; the reference rounds in the order the array     *)
(* code does, so that only a different formula shows as a difference.      *)
(***************************************************************************)
Scalar(v, d) == [value |-> v, derivative |-> d]

s_new(v) == Scalar(v, One)

s_neg(a) == Scalar(f_neg(a.value), f_neg(a.derivative))

s_add(a, b) == Scalar(f_add(a.value, b.value), f_add(a.derivative, b.derivative))

s_sub(a, b) == Scalar(f_sub(a.value, b.value), f_sub(a.derivative, b.derivative))

s_mul(a, b) ==
  Scalar(f_mul(a.value, b.value),
         f_add(f_mul(a.value, b.derivative), f_mul(b.value, a.derivative)))

s_div(a, b) ==
  Scalar(f_div(a.value, b.value),
         f_div(f_add(f_mul(a.value, b.derivative), f_mul(b.value, a.derivative)),
               f_mul(b.value, b.value)))

s_add_const(a, c) == Scalar(f_add(a.value, c), a.derivative)

s_mul_const(a, c) == Scalar(f_mul(a.value, c), f_mul(a.derivative, c))

s_pow(a, r) ==
  Scalar(f_powf(a.value, r),
         f_mul(f_mul(r, f_powf(a.value, f_sub(r, One))), a.derivative))

s_const_pow(base, a) ==
  Scalar(f_powf(base, a.value),
         f_mul(f_mul(f_ln(base), f_powf(base, a.value)), a.derivative))

s_sqrt(a) == s_pow(a, Lit(1))

s_exp(a) == Scalar(f_exp(a.value), f_mul(f_exp(a.value), a.derivative))

s_ln(a) == Scalar(f_ln(a.value), f_mul(f_powi(a.value, -1), a.derivative))

s_log(a, base) ==
  Scalar(f_log(a.value, base),
         f_mul(f_powi(f_mul(f_ln(base), a.value), -1), a.derivative))

s_sin(a) == Scalar(f_sin(a.value), f_mul(f_cos(a.value), a.derivative))

s_cos(a) == Scalar(f_cos(a.value), f_mul(f_neg(f_sin(a.value)), a.derivative))

s_tan(a) == Scalar(f_tan(a.value), f_mul(f_powi(f_cos(a.value), -2), a.derivative))

s_asin(a) ==
  Scalar(f_asin(a.value),
         f_mul(f_powi(f_sqrt(f_sub(One, f_powi(a.value, 2))), -1), a.derivative))

s_acos(a) ==
  Scalar(f_acos(a.value),
         f_mul(f_neg(f_powi(f_sqrt(f_sub(One, f_powi(a.value, 2))), -1)), a.derivative))

s_atan(a) ==
  Scalar(f_atan(a.value),
         f_mul(f_powi(f_add(One, f_powi(a.value, 2)), -1), a.derivative))

(***************************************************************************)
(* The state machine: seed a variable, then apply operations to it.        *)
(***************************************************************************)
\* the literals a variable is seeded from, and the plain constants of the
\* constant operations, in halves
SeedLits == {-2, 0, 2, 6}
ConstLits == {-2, 1, 4}

\* the operands of an operation on two duals
Operands == {<<"y", "y">>, <<"y", "seed">>, <<"seed", "y">>}
D(sel) == IF sel = "y" THEN y ELSE seed
S(sel) == IF sel = "y" THEN sy ELSE sseed

Init ==
  /\ F \in FloatTypes
  /\ N \in 1..MaxN
  /\ \E h \in SeedLits :
       /\ k = Lit(h)
       /\ seed = dual(Lit(h))
       /\ sseed = s_new(Lit(h))
  /\ y = seed
  /\ sy = sseed
  /\ op = "new"
  /\ lhs = seed
  /\ rhs = seed
  /\ pop = "none"
  /\ pk = 0
  /\ steps = 0

\* one operation: its name, operands and constant are recorded beside the result
Apply(name, a, b, c, result, sresult) ==
  /\ steps < MaxSteps
  /\ op' = name
  /\ lhs' = a
  /\ rhs' = b
  /\ k' = c
  /\ y' = result
  /\ sy' = sresult
  /\ pop' = op
  /\ pk' = k
  /\ steps' = steps + 1
  /\ UNCHANGED <<F, N, seed, sseed>>

CallSqrt == Apply("sqrt", y, y, 0, sqrt(y), s_sqrt(sy))
CallExp == Apply("exp", y, y, 0, exp(y), s_exp(sy))
CallLn == Apply("ln", y, y, 0, ln(y), s_ln(sy))
CallLog == \E h \in ConstLits : Apply("log", y, y, Lit(h), log(y, Lit(h)), s_log(sy, Lit(h)))
CallSin == Apply("sin", y, y, 0, sin(y), s_sin(sy))
CallCos == Apply("cos", y, y, 0, cos(y), s_cos(sy))
CallTan == Apply("tan", y, y, 0, tan(y), s_tan(sy))
CallAsin == Apply("asin", y, y, 0, asin(y), s_asin(sy))
CallAcos == Apply("acos", y, y, 0, acos(y), s_acos(sy))
CallAtan == Apply("atan", y, y, 0, atan(y), s_atan(sy))
CallNeg == Apply("neg", y, y, 0, neg(y), s_neg(sy))

CallAdd ==
  \E p \in Operands :
    Apply("add", D(p[1]), D(p[2]), 0, add(D(p[1]), D(p[2])), s_add(S(p[1]), S(p[2])))

CallSub ==
  \E p \in Operands :
    Apply("sub", D(p[1]), D(p[2]), 0, sub(D(p[1]), D(p[2])), s_sub(S(p[1]), S(p[2])))

CallMul ==
  \E p \in Operands :
    Apply("mul", D(p[1]), D(p[2]), 0, mul(D(p[1]), D(p[2])), s_mul(S(p[1]), S(p[2])))

CallDiv ==
  \E p \in Operands :
    Apply("div", D(p[1]), D(p[2]), 0, div(D(p[1]), D(p[2])), s_div(S(p[1]), S(p[2])))

CallAddF ==
  \E h \in ConstLits :
    Apply("add_F", y, y, Lit(h), add_F(y, Lit(h)), s_add_const(sy, Lit(h)))

CallF32Add ==
  /\ F = "f32"
  /\ \E h \in ConstLits :
       Apply("f32_add", y, y, Lit(h), f32_add(Lit(h), y), s_add_const(sy, Lit(h)))

CallF64Add ==
  /\ F = "f64"
  /\ \E h \in ConstLits :
       Apply("f64_add", y, y, Lit(h), f64_add(Lit(h), y), s_add_const(sy, Lit(h)))

CallTupleAdd ==
  \E h \in ConstLits :
    Apply("tuple_add", y, y, Lit(h), tuple_add(Lit(h), y), s_add_const(sy, Lit(h)))

CallMulF ==
  \E h \in ConstLits :
    Apply("mul_F", y, y, Lit(h), mul_F(y, Lit(h)), s_mul_const(sy, Lit(h)))

CallF32Mul ==
  /\ F = "f32"
  /\ \E h \in ConstLits :
       Apply("f32_mul", y, y, Lit(h), f32_mul(Lit(h), y), s_mul_const(sy, Lit(h)))

CallF64Mul ==
  /\ F = "f64"
  /\ \E h \in ConstLits :
       Apply("f64_mul", y, y, Lit(h), f64_mul(Lit(h), y), s_mul_const(sy, Lit(h)))

CallPow ==
  \E h \in ConstLits :
    Apply("pow", y, y, Lit(h), pow(y, Lit(h)), s_pow(sy, Lit(h)))

CallTuplePow ==
  \E h \in ConstLits :
    Apply("tuple_pow", y, y, Lit(h), tuple_pow(Lit(h), y), s_const_pow(Lit(h), sy))

CallF32Pow ==
  /\ F = "f32"
  /\ \E h \in ConstLits :
       Apply("f32_pow", y, y, Lit(h), f32_pow(Lit(h), y), s_const_pow(Lit(h), sy))

CallF64Pow ==
  /\ F = "f64"
  /\ \E h \in ConstLits :
       Apply("f64_pow", y, y, Lit(h), f64_pow(Lit(h), y), s_const_pow(Lit(h), sy))

Next ==
  \/ CallSqrt
  \/ CallExp
  \/ CallLn
  \/ CallLog
  \/ CallSin
  \/ CallCos
  \/ CallTan
  \/ CallAsin
  \/ CallAcos
  \/ CallAtan
  \/ CallNeg
  \/ CallAdd
  \/ CallAddF
  \/ CallF32Add
  \/ CallF64Add
  \/ CallTupleAdd
  \/ CallSub
  \/ CallMul
  \/ CallMulF
  \/ CallF32Mul
  \/ CallF64Mul
  \/ CallDiv
  \/ CallPow
  \/ CallTuplePow
  \/ CallF32Pow
  \/ CallF64Pow

Spec == Init /\ [][Next]_vars

(***************************************************************************)
(* Properties.                                                             *)
(***************************************************************************)
Slots == 1..N

AddConstOps == {"add_F", "f32_add", "f64_add", "tuple_add"}
MulConstOps == {"mul_F", "f32_mul", "f64_mul"}

\* C1: Dual::new(c), and dual!(c) which calls it, gives for every literal c
\* and every width N a dual of N slots whose value is c and whose derivative
\* is exactly 1 in every slot.
C1_NewSeedsValueAndUnitDerivative ==
  op = "new" =>
    /\ Len(value(y)) = N
    /\ Len(derivative(y)) = N
    /\ \A i \in Slots : value(y)[i] = k /\ derivative(y)[i] = One

C1_Witness == op = "new" /\ N > 1 /\ k = Lit(6) /\ y = seed

\* C2: d.exp() has value e^(d.value) and derivative e^(d.value) * d.derivative
\* in every slot, d.value being the value before the call; a freshly seeded
\* dual at c therefore has value and derivative both e^c.
C2_ExpRule ==
  op = "exp" =>
    \A i \in Slots :
      /\ y.x[i] = f_exp(lhs.x[i])
      /\ y.dx[i] = f_mul(f_exp(lhs.x[i]), lhs.dx[i])
      /\ (steps = 1 => y.dx[i] = f_exp(seed.x[i]))

C4_QuotientRuleOfCalculus ==
  op = "div" =>
    \A i \in Slots :
      rhs.x[i] # 0 =>
        /\ y.dx[i] = f_div(f_sub(f_mul(lhs.dx[i], rhs.x[i]), f_mul(lhs.x[i], rhs.dx[i])),
                           f_mul(rhs.x[i], rhs.x[i]))
        /\ (steps = 1 => y.dx[i] = 0)

\* C5: c + x and x + c give the identical (value, derivative) pair, and so do
\* c * x and x * c, whichever implemented operand order is used: Dual with F,
\* f32 with Dual, f64 with Dual, and (F,) with Dual for addition.
C5_ConstantOperandOrderIrrelevant ==
  /\ op \in AddConstOps =>
       /\ y = add_F(lhs, k)
       /\ y = tuple_add(k, lhs)
       /\ (F = "f32" => y = f32_add(k, lhs))
       /\ (F = "f64" => y = f64_add(k, lhs))
  /\ op \in MulConstOps =>
       /\ y = mul_F(lhs, k)
       /\ (F = "f32" => y = f32_mul(k, lhs))
       /\ (F = "f64" => y = f64_mul(k, lhs))

C5_Witness ==
  /\ op = "mul_F"
  /\ F = "f32"
  /\ k # One
  /\ IsFin(y.dx[1])
  /\ y.dx[1] # lhs.dx[1]
  /\ y.x[1] # lhs.x[1]

\* C6: a plain constant contributes no derivative: x + c and c + x have value
\* x.value + c and derivative x.derivative; x * c and c * x have value
\* x.value * c and derivative x.derivative * c; so k + x * m on a variable
\* seeded at p has value k + p*m and derivative m.
C6_ConstantContributesZeroDerivative ==
  /\ op \in AddConstOps =>
       \A i \in Slots : y.x[i] = f_add(lhs.x[i], k) /\ y.dx[i] = lhs.dx[i]
  /\ op \in MulConstOps =>
       \A i \in Slots : y.x[i] = f_mul(lhs.x[i], k) /\ y.dx[i] = f_mul(lhs.dx[i], k)
  /\ (steps = 2 /\ pop \in MulConstOps /\ op \in AddConstOps) =>
       \A i \in Slots :
         /\ y.x[i] = f_add(k, f_mul(seed.x[i], pk))
         /\ y.dx[i] = pk

C6_Witness ==
  /\ steps = 2
  /\ pop = "mul_F"
  /\ op = "f32_add"
  /\ seed.x[1] = Lit(6)
  /\ pk = Lit(4)
  /\ k = Lit(1)
  /\ y.x[1] = Lit(13)
  /\ y.dx[1] = Lit(4)

\* C7: a * b has value a.value * b.value and derivative
\* a.value*b.derivative + b.value*a.derivative, computed from the operands'
\* derivatives and not reseeded to 1; so x * x + k on a variable seeded at c
\* has value c*c + k and derivative 2*c.
C7_ProductRule ==
  /\ op = "mul" =>
       \A i \in Slots :
         /\ y.x[i] = f_mul(lhs.x[i], rhs.x[i])
         /\ y.dx[i] = f_add(f_mul(lhs.x[i], rhs.dx[i]), f_mul(rhs.x[i], lhs.dx[i]))
  /\ (steps = 2 /\ pop = "mul" /\ op \in AddConstOps) =>
       \A i \in Slots :
         /\ y.x[i] = f_add(f_mul(seed.x[i], seed.x[i]), k)
         /\ y.dx[i] = f_mul(Lit(4), seed.x[i])

C7_Witness ==
  /\ steps = 2
  /\ pop = "mul"
  /\ op = "add_F"
  /\ seed.x[1] = Lit(6)
  /\ k = Lit(4)
  /\ y.x[1] = Lit(22)
  /\ y.dx[1] = Lit(12)

\* a width-N dual and a scalar dual number hold the same pair in every slot
Agree(d, s) == \A i \in Slots : d.x[i] = s.value /\ d.dx[i] = s.derivative

\* C8: for every width N and every expression of the engine's operations, exp
\* included, on a dual seeded from one literal, each of the N slots holds the
\* (value, derivative) pair that a scalar dual number evaluated through the
\* same expression under the scalar rules holds.
C8_SlotsMatchScalar == Agree(seed, sseed) /\ Agree(y, sy)

\* Every operation other than exp keeps the slots equal to the scalar pair.
OperationsOtherThanExpMatchScalar ==
  [][(op' # "exp" /\ Agree(y, sy)) => Agree(y', sy')]_vars

\* C9: d.pow(r) has value d.value^r and derivative r * d.value^(r-1) *
\* d.derivative; d.sqrt() is d.pow(0.5), so a dual seeded at 1 has square root
\* of value 1 and derivative 0.5.
C9_PowerRule ==
  /\ op = "pow" =>
       \A i \in Slots :
         /\ y.x[i] = f_powf(lhs.x[i], k)
         /\ y.dx[i] = f_mul(f_mul(k, f_powf(lhs.x[i], f_sub(k, One))), lhs.dx[i])
  /\ op = "sqrt" =>
       /\ y = pow(lhs, Lit(1))
       /\ \A i \in Slots :
            /\ y.x[i] = f_powf(lhs.x[i], Lit(1))
            /\ y.dx[i] = f_mul(f_mul(Lit(1), f_powf(lhs.x[i], f_neg(Lit(1)))), lhs.dx[i])
            /\ (steps = 1 /\ seed.x[i] = One) => (y.x[i] = One /\ y.dx[i] = Lit(1))

C9_Witness ==
  /\ op = "sqrt"
  /\ steps = 1
  /\ seed.x[1] = One
  /\ y.x[1] = One
  /\ y.dx[1] = Lit(1)

\* C10: zero derivative is preserved by every operation.  When every dual
\* operand has derivative 0 and no intermediate value is exceptional, the
\* result has derivative 0.  The derivative of the result is itself the last
\* intermediate value, so the statement proved is the stronger one that asks
\* only the result's derivative not to be an infinity or NaN.
C10_ZeroDerivativePreserved ==
  (op # "new" /\ \A i \in Slots : lhs.dx[i] = 0 /\ rhs.dx[i] = 0) =>
    \A i \in Slots : IsFin(y.dx[i]) => y.dx[i] = 0

C10_Witness ==
  /\ pop = "sub"
  /\ op = "cos"
  /\ lhs.dx[1] = 0
  /\ lhs.x[1] = 0
  /\ y.x[1] = One
  /\ y.dx[1] = 0

====
